---- MODULE Spec2Model ----
(***************************************************************************)
(* A model of helpers/url.js: image URL resolution against the files under *)
(* public/, content hashing, hash splicing, and the in-memory staticCache  *)
(* behind getCacheBustedUrl.                                               *)
(*                                                                         *)
(* Strings.  A JavaScript string is modelled as the sequence of its        *)
(* tokens: the separators "." and "/" are tokens of their own, and every   *)
(* maximal run of other characters is one token (a chunk).  So             *)
(*   "/css/app.css"  is  <<"/", "css", "/", "app", ".", "css">>            *)
(* and the empty string is << >>.  Concatenation (Plus) merges two chunks  *)
(* that meet, which keeps the representation unique; split and join are    *)
(* computed on the tokens.                                                 *)
(*                                                                         *)
(* Values.  A JavaScript value is a record tagged by its type (field t).   *)
(* An exception is modelled as a result tagged "throw".                    *)
(***************************************************************************)
EXTENDS Integers, Sequences, FiniteSets, TLC

VARIABLES fs, staticCache, last, hist, frame, tasks

vars == <<fs, staticCache, last, hist, frame, tasks>>

----------------------------------------------------------------------------
(* Bounds of the exploration *)

\* At most this many files exist under public/ at one time.
MaxFiles == 3

\* Number of logical tasks racing on getCacheBustedUrl (SpecTasks).
NumTasks == 2

\* Longest URL, in "."-separated segments, handed to addHashToUrl
\* (SpecSplice).
MaxSegments == 3

----------------------------------------------------------------------------
(* JavaScript values *)

Undefined == [t |-> "undefined"]
Str(s) == [t |-> "string", s |-> s]
Num(n) == [t |-> "number", n |-> n]
Throw(code) == [t |-> "throw", code |-> code]

IsString(v) == v.t = "string"
IsThrow(v) == v.t = "throw"

\* ToBoolean, as used by `if (x)`, `!x` and `x ? a : b`.
Truthy(v) ==
    CASE v.t = "undefined" -> FALSE
      [] v.t = "string" -> v.s # << >>
      [] v.t = "number" -> v.n # 0
      [] OTHER -> TRUE

DigitChunk == <<"0", "1", "2", "3", "4", "5", "6", "7", "8", "9">>

\* ToString, as applied to a property key and to an operand of string `+`
\* (numbers 0..9 only).
ToStringJS(v) ==
    CASE v.t = "string" -> v.s
      [] v.t = "number" -> <<DigitChunk[v.n + 1]>>
      [] OTHER -> <<"undefined">>

----------------------------------------------------------------------------
(* Strings as token sequences *)

\* The value of the one-element set S.  { e(x) : x \in {v} } binds x to
\* the value of v, computed once, as `const x = v` does.
The(S) == CHOOSE x \in S : TRUE

DOT == "."
SLASH == "/"

IsSep(tok) == tok = DOT \/ tok = SLASH

Last(s) == s[Len(s)]

\* String concatenation, the `+` of two strings.
Plus(a, b) ==
    IF a = << >> THEN b
    ELSE IF b = << >> THEN a
    ELSE IF ~IsSep(Last(a)) /\ ~IsSep(Head(b))
         THEN SubSeq(a, 1, Len(a) - 1) \o <<Last(a) \o Head(b)>> \o Tail(b)
         ELSE a \o b

\* String.prototype.split(sep) for a one-character separator: the pieces
\* between the occurrences of sep, empty pieces included.
RECURSIVE Split(_, _)
Split(s, sep) ==
    IF s = << >> THEN << << >> >>
    ELSE The({ IF Head(s) = sep
               THEN << << >> >> \o rest
               ELSE << Plus(<<Head(s)>>, Head(rest)) >> \o Tail(rest)
               : rest \in {Split(Tail(s), sep)} })

\* Array.prototype.join(sep) of an array of strings.
RECURSIVE Join(_, _)
Join(parts, sep) ==
    IF Len(parts) = 0 THEN << >>
    ELSE IF Len(parts) = 1 THEN parts[1]
    ELSE Plus(Plus(parts[1], <<sep>>), Join(Tail(parts), sep))

----------------------------------------------------------------------------
(* Paths and the files under public/ *)

\* process.cwd()
Cwd == <<SLASH, "app">>

RECURSIVE AbsFromComponents(_)
AbsFromComponents(comps) ==
    IF Len(comps) = 0 THEN << >>
    ELSE IF Head(comps) = << >> \/ Head(comps) = <<DOT>>
         THEN AbsFromComponents(Tail(comps))
         ELSE <<SLASH>> \o Head(comps) \o AbsFromComponents(Tail(comps))

\* path.normalize of an absolute path: empty and "." components dropped
\* (".." does not occur in the paths this module builds).
NormalizeAbs(p) == AbsFromComponents(Split(p, SLASH))

\* path.join(...parts) with an absolute first part.
PathJoin(parts) == NormalizeAbs(Join(parts, SLASH))

\* The file a path handed to fs.existsSync / fs.readFileSync names: a
\* relative path is resolved against process.cwd().
Resolve(p) ==
    IF p # << >> /\ Head(p) = SLASH
    THEN NormalizeAbs(p)
    ELSE PathJoin(<<Cwd, p>>)

\* dir is a proper ancestor directory of file f.
IsAncestor(dir, f) ==
    /\ Len(dir) < Len(f)
    /\ SubSeq(f, 1, Len(dir)) = dir
    /\ f[Len(dir) + 1] = SLASH

\* The directories that exist are the ancestors of the files that exist.
IsDirectory(files, p) == \E f \in DOMAIN files : IsAncestor(p, f)

\* fs.existsSync(path)
ExistsSync(files, path) ==
    \E f \in {Resolve(path)} : f \in DOMAIN files \/ IsDirectory(files, f)

\* One entry of the record of file-system calls an operation made.
Ex(path) == [call |-> "existsSync", file |-> Resolve(path)]
Rd(path) == [call |-> "readFileSync", file |-> Resolve(path)]

----------------------------------------------------------------------------
(* Constants of the module *)

THUMB == <<"thumb">>
MEDIUM == <<"medium">>
FULL == <<"full">>
ITEM == <<"item">>
VILLAGER == <<"villager">>

\* Length of hash key in filenames: the number of characters of each entry
\* of Md5HexPrefix below.
HASH_LENGTH == 7

\* The file contents of the exploration.
Contents == {"", "a"}

\* crypto.createHash('md5').update(fileStr, 'utf8').digest('hex')
\*     .substr(0, HASH_LENGTH)
\* tabulated for the contents above and for "b": the first HASH_LENGTH
\* characters of the real MD5 digests d41d8cd98f00b204e9800998ecf8427e,
\* 0cc175b9c0f1b6a831c399e269772661 and 92eb5ffee6ae2fec3ad71c777531578f.
Md5HexPrefix(fileStr) ==
    CASE fileStr = "" -> "d41d8cd"
      [] fileStr = "a" -> "0cc175b"
      [] fileStr = "b" -> "92eb5ff"

----------------------------------------------------------------------------
(* The functions of helpers/url.js.  A function that touches the file      *)
(* system takes the files as its first argument and returns                *)
(* [val |-> its result, io |-> the file-system calls it made, in order].   *)

\* getImageNotFoundFilename with another file type
getImageNotFoundFilename_Png(size) ==
    Plus(Plus(<<SLASH, "images", SLASH, "image-not-available-">>, size),
         <<DOT, "png">>)

\* getImageNotFoundFilename(size)
getImageNotFoundFilename(size) ==
    Plus(Plus(<<SLASH, "images", SLASH, "image-not-available-">>, size),
         <<DOT, "svg">>)

\* createFileHash(filePath).  readFileSync of a directory throws EISDIR.
createFileHash(files, filePath) ==
    IF ExistsSync(files, filePath)
    THEN IF Resolve(filePath) \in DOMAIN files
         THEN [val |-> Str(<<Md5HexPrefix(files[Resolve(filePath)])>>),
               io |-> <<Ex(filePath), Rd(filePath)>>]
         ELSE [val |-> Throw("EISDIR"),
               io |-> <<Ex(filePath), Rd(filePath)>>]
    ELSE [val |-> Undefined, io |-> <<Ex(filePath)>>]

\* addHashToUrl with the hash appended after the extension
addHashToUrl_AfterExtension(inputUrl, hash) ==
    Join(Split(inputUrl, DOT) \o <<hash>>, DOT)

\* addHashToUrl(inputUrl, hash), both strings.
addHashToUrl(inputUrl, hash) ==
    The({ Join(SubSeq(fileParts, 1, Len(fileParts) - 1)
                   \o <<hash>>
                   \o <<fileParts[Len(fileParts)]>>, DOT)
          : fileParts \in {Split(inputUrl, DOT)} })

\* imageId of getImageUrl
ImageId(id, variationId) ==
    IF Truthy(variationId)
    THEN Plus(id, Plus(<<"-vv-">>, ToStringJS(variationId)))
    ELSE id

\* '/images/' + entityType + 's/' + imageType + '/' + imageId + ext
ImageUrl(entityType, imageType, imageId, ext) ==
    Plus(Plus(Plus(Plus(Plus(Plus(<<SLASH, "images", SLASH>>, entityType),
        <<"s", SLASH>>), imageType), <<SLASH>>), imageId), ext)

\* './public/images/' + entityType + 's/' + FULL + '/' + imageId
PathPrefix(entityType, size, imageId) ==
    Plus(Plus(Plus(Plus(Plus(
        <<DOT, SLASH, "public", SLASH, "images", SLASH>>, entityType),
        <<"s", SLASH>>), size), <<SLASH>>), imageId)

PNG == <<DOT, "png">>
JPG == <<DOT, "jpg">>
JPEG == <<DOT, "jpeg">>

\* getImageUrl with .jpg probed before .png
getImageUrl_JpgFirst(files, entityType, imageType, id, variationId) ==
    IF imageType = THUMB \/ imageType = MEDIUM \/ imageType = FULL
    THEN The({
           The({
             IF ExistsSync(files, Plus(pathPrefix, JPG))
             THEN [val |-> Str(ImageUrl(entityType, imageType, imageId, JPG)),
                   io |-> <<Ex(Plus(pathPrefix, JPG))>>]
             ELSE IF ExistsSync(files, Plus(pathPrefix, PNG))
             THEN [val |-> Str(ImageUrl(entityType, imageType, imageId, PNG)),
                   io |-> <<Ex(Plus(pathPrefix, JPG)),
                            Ex(Plus(pathPrefix, PNG))>>]
             ELSE IF ExistsSync(files, Plus(pathPrefix, JPEG))
             THEN [val |-> Str(ImageUrl(entityType, imageType, imageId, JPEG)),
                   io |-> <<Ex(Plus(pathPrefix, JPG)),
                            Ex(Plus(pathPrefix, PNG)),
                            Ex(Plus(pathPrefix, JPEG))>>]
             ELSE [val |-> Undefined,
                   io |-> <<Ex(Plus(pathPrefix, JPG)),
                            Ex(Plus(pathPrefix, PNG)),
                            Ex(Plus(pathPrefix, JPEG))>>]
             : pathPrefix \in {PathPrefix(entityType, FULL, imageId)} })
           : imageId \in {ImageId(id, variationId)} })
    ELSE [val |-> Undefined, io |-> << >>]

\* getImageUrl with existence checked against the requested size
getImageUrl_OwnSize(files, entityType, imageType, id, variationId) ==
    IF imageType = THUMB \/ imageType = MEDIUM \/ imageType = FULL
    THEN The({
           The({
             IF ExistsSync(files, Plus(pathPrefix, PNG))
             THEN [val |-> Str(ImageUrl(entityType, imageType, imageId, PNG)),
                   io |-> <<Ex(Plus(pathPrefix, PNG))>>]
             ELSE IF ExistsSync(files, Plus(pathPrefix, JPG))
             THEN [val |-> Str(ImageUrl(entityType, imageType, imageId, JPG)),
                   io |-> <<Ex(Plus(pathPrefix, PNG)),
                            Ex(Plus(pathPrefix, JPG))>>]
             ELSE IF ExistsSync(files, Plus(pathPrefix, JPEG))
             THEN [val |-> Str(ImageUrl(entityType, imageType, imageId, JPEG)),
                   io |-> <<Ex(Plus(pathPrefix, PNG)),
                            Ex(Plus(pathPrefix, JPG)),
                            Ex(Plus(pathPrefix, JPEG))>>]
             ELSE [val |-> Undefined,
                   io |-> <<Ex(Plus(pathPrefix, PNG)),
                            Ex(Plus(pathPrefix, JPG)),
                            Ex(Plus(pathPrefix, JPEG))>>]
             : pathPrefix \in {PathPrefix(entityType, imageType, imageId)} })
           : imageId \in {ImageId(id, variationId)} })
    ELSE [val |-> Undefined, io |-> << >>]

\* getImageUrl(entityType, imageType, id, variationId)
getImageUrl(files, entityType, imageType, id, variationId) ==
    IF imageType = THUMB \/ imageType = MEDIUM \/ imageType = FULL
    THEN The({
           The({
             IF ExistsSync(files, Plus(pathPrefix, PNG))
             THEN [val |-> Str(ImageUrl(entityType, imageType, imageId, PNG)),
                   io |-> <<Ex(Plus(pathPrefix, PNG))>>]
             ELSE IF ExistsSync(files, Plus(pathPrefix, JPG))
             THEN [val |-> Str(ImageUrl(entityType, imageType, imageId, JPG)),
                   io |-> <<Ex(Plus(pathPrefix, PNG)),
                            Ex(Plus(pathPrefix, JPG))>>]
             ELSE IF ExistsSync(files, Plus(pathPrefix, JPEG))
             THEN [val |-> Str(ImageUrl(entityType, imageType, imageId, JPEG)),
                   io |-> <<Ex(Plus(pathPrefix, PNG)),
                            Ex(Plus(pathPrefix, JPG)),
                            Ex(Plus(pathPrefix, JPEG))>>]
             ELSE [val |-> Undefined,
                   io |-> <<Ex(Plus(pathPrefix, PNG)),
                            Ex(Plus(pathPrefix, JPG)),
                            Ex(Plus(pathPrefix, JPEG))>>]
             : pathPrefix \in {PathPrefix(entityType, FULL, imageId)} })
           : imageId \in {ImageId(id, variationId)} })
    ELSE [val |-> Undefined, io |-> << >>]

\* path.join(process.cwd(), 'public', url)
PublicPath(url) == PathJoin(<<Cwd, <<"public">>, url>>)

\* computeStaticAssetUrl returning nothing when hashing failed
computeStaticAssetUrl_NoFallback(files, inputUrl, computedHash) ==
    IF ~IsString(inputUrl)
    THEN [val |-> Undefined, io |-> << >>]
    ELSE The({
           IF IsThrow(h.val) THEN h
           ELSE IF Truthy(h.val)
           THEN [val |-> Str(addHashToUrl(inputUrl.s, ToStringJS(h.val))),
                 io |-> h.io]
           ELSE [val |-> Undefined, io |-> h.io]
           : h \in { IF Truthy(computedHash)
                    THEN [val |-> computedHash, io |-> << >>]
                    ELSE createFileHash(files, PublicPath(inputUrl.s)) } })

\* computeStaticAssetUrl always hashing the file of the URL itself
computeStaticAssetUrl_OwnHash(files, inputUrl, computedHash) ==
    IF ~IsString(inputUrl)
    THEN [val |-> Undefined, io |-> << >>]
    ELSE The({
           IF IsThrow(h.val) THEN h
           ELSE IF Truthy(h.val)
           THEN [val |-> Str(addHashToUrl(inputUrl.s, ToStringJS(h.val))),
                 io |-> h.io]
           ELSE [val |-> inputUrl, io |-> h.io]
           : h \in { createFileHash(files, PublicPath(inputUrl.s)) } })

\* computeStaticAssetUrl(inputUrl, computedHash)
computeStaticAssetUrl(files, inputUrl, computedHash) ==
    IF ~IsString(inputUrl)
    THEN [val |-> Undefined, io |-> << >>]
    ELSE The({
           IF IsThrow(h.val) THEN h
           ELSE IF Truthy(h.val)
           THEN [val |-> Str(addHashToUrl(inputUrl.s, ToStringJS(h.val))),
                 io |-> h.io]
           ELSE [val |-> inputUrl, io |-> h.io]
           : h \in { IF Truthy(computedHash)
                    THEN [val |-> computedHash, io |-> << >>]
                    ELSE createFileHash(files, PublicPath(inputUrl.s)) } })

\* The record getEntityImageData returns.
ImageData(thumb, medium, full) ==
    [t |-> "object", thumb |-> thumb, medium |-> medium, full |-> full]

\* One property of the record getEntityImageData builds:
\* computeStaticAssetUrl(getImageUrl(entityType, size, id, variationId), hash)
Variant(files, entityType, size, id, variationId, hash) ==
    The({ The({ [val |-> c.val, io |-> u.io \o c.io]
                : c \in {computeStaticAssetUrl(files, u.val, hash)} })
          : u \in {getImageUrl(files, entityType, size, id, variationId)} })

\* The record of the three variants, or the exception one of them threw.
Variants(thumb, medium, full) ==
    IF IsThrow(thumb.val) THEN thumb
    ELSE IF IsThrow(medium.val)
    THEN [val |-> medium.val, io |-> thumb.io \o medium.io]
    ELSE IF IsThrow(full.val)
    THEN [val |-> full.val, io |-> thumb.io \o medium.io \o full.io]
    ELSE [val |-> ImageData(thumb.val, medium.val, full.val),
          io |-> thumb.io \o medium.io \o full.io]

\* getEntityImageData(entityType, id, variationId, usePlaceholderImage),
\* with no change of the files during the call.
getEntityImageData(files, entityType, id, variationId, usePlaceholderImage) ==
    The({
      IF ~Truthy(url.val)
      THEN IF usePlaceholderImage
           THEN [val |-> ImageData(Str(getImageNotFoundFilename(THUMB)),
                                   Str(getImageNotFoundFilename(MEDIUM)),
                                   Str(getImageNotFoundFilename(FULL))),
                 io |-> url.io]
           ELSE [val |-> Undefined, io |-> url.io]
      ELSE The({
             IF IsThrow(hash.val)
             THEN [val |-> hash.val, io |-> url.io \o hash.io]
             ELSE The({ [val |-> v.val, io |-> url.io \o hash.io \o v.io]
                        : v \in {Variants(
                            Variant(files, entityType, THUMB, id, variationId,
                                    hash.val),
                            Variant(files, entityType, MEDIUM, id, variationId,
                                    hash.val),
                            Variant(files, entityType, FULL, id, variationId,
                                    hash.val))} })
             : hash \in {createFileHash(files, PublicPath(url.val.s))} })
      : url \in {getImageUrl(files, entityType, FULL, id, variationId)} })

\* staticCache[key]: the value of a property of the cache object.
CacheGet(cache, key) ==
    IF ToStringJS(key) \in DOMAIN cache THEN cache[ToStringJS(key)] ELSE Undefined

\* staticCache[key] = value
CacheSet(cache, key, value) ==
    [k \in DOMAIN cache \cup {ToStringJS(key)} |->
        IF k = ToStringJS(key) THEN value ELSE cache[k]]

\* getCacheBustedUrl(inputUrl) on the cache `cache`:
\* [val, io, cache |-> the cache afterwards, computed |-> whether
\* computeStaticAssetUrl was called].  An exception thrown by the
\* computation leaves the cache as it was.
getCacheBustedUrl(files, cache, inputUrl) ==
    IF Truthy(CacheGet(cache, inputUrl))
    THEN [val |-> CacheGet(cache, inputUrl), io |-> << >>,
          cache |-> cache, computed |-> FALSE]
    ELSE The({
           IF IsThrow(r.val)
           THEN [val |-> r.val, io |-> r.io,
                 cache |-> cache, computed |-> TRUE]
           ELSE [val |-> CacheGet(CacheSet(cache, inputUrl, r.val), inputUrl),
                 io |-> r.io,
                 cache |-> CacheSet(cache, inputUrl, r.val),
                 computed |-> TRUE]
           : r \in {computeStaticAssetUrl(files, inputUrl, Undefined)} })

----------------------------------------------------------------------------
(* The inputs and the files of the exploration *)

AppCss == <<SLASH, "css", SLASH, "app", DOT, "css">>

\* Arguments of computeStaticAssetUrl and getCacheBustedUrl.
UrlInputs == {Str(AppCss), Str(<<"5">>), Str(<< >>), Num(5)}

\* A precomputed hash handed to computeStaticAssetUrl: none, or the hash of
\* a content no file holds.
HashInputs == {Undefined, Str(<<Md5HexPrefix("b")>>)}

\* Entity references: an item without variation, a villager with one.
ItemRef == [entityType |-> ITEM, id |-> <<"5">>, variationId |-> Undefined]
VillagerRef ==
    [entityType |-> VILLAGER, id |-> <<"5">>, variationId |-> Str(<<"2">>)]

Entities == {ItemRef, VillagerRef}

ImageTypes == {THUMB, MEDIUM, FULL, <<"huge">>}

\* The directory and the image id of an entity reference, written out.
DirOf(e) == IF e = ItemRef THEN "items" ELSE "villagers"
IdOf(e) == IF e = ItemRef THEN "5" ELSE "5-vv-2"

\* The image file of entity e, size and extension, as an absolute path.
ImageFile(e, size, ext) ==
    <<SLASH, "app", SLASH, "public", SLASH, "images", SLASH, DirOf(e),
      SLASH, size, SLASH, IdOf(e), DOT, ext>>

\* The image files that may exist: the three full-size candidates and a
\* thumbnail of the item, one full-size candidate of the villager variation.
ImageFiles ==
    {ImageFile(ItemRef, "full", x) : x \in {"png", "jpg", "jpeg"}}
        \cup {ImageFile(ItemRef, "thumb", "png"),
              ImageFile(VillagerRef, "full", "jpeg")}

AppCssFile == <<SLASH, "app", SLASH, "public", SLASH, "css", SLASH, "app",
                DOT, "css">>

FiveFile == <<SLASH, "app", SLASH, "public", SLASH, "5">>

\* The static asset files that may exist: public/css/app.css and public/5.
AssetFiles == {AppCssFile, FiveFile}

WriteFile(files, f, c) ==
    [g \in DOMAIN files \cup {f} |-> IF g = f THEN c ELSE files[g]]

DeleteFile(files, f) == [g \in DOMAIN files \ {f} |-> files[g]]

\* A change of the files made from outside the process: a file of `among`
\* is created, rewritten with another content, or deleted.
FsStep(among) ==
    \/ \E f \in among, c \in Contents :
          /\ f \in DOMAIN fs => fs[f] # c
          /\ Cardinality(DOMAIN fs \cup {f}) <= MaxFiles
          /\ fs' = WriteFile(fs, f, c)
    \/ \E f \in among :
          /\ f \in DOMAIN fs
          /\ fs' = DeleteFile(fs, f)

\* The states of the files of `among`.
FsStates(among) ==
    UNION { [S -> Contents] :
                S \in {T \in SUBSET among : Cardinality(T) <= MaxFiles} }

None == [name |-> "none"]

EmptyCache == [k \in {} |-> Undefined]

Idle == [pc |-> "idle"]

NoTasks == [url |-> Undefined]

----------------------------------------------------------------------------
(* Spec: the static assets and the cache, as the single-threaded process   *)
(* runs them.  Every call runs to completion; the asset files change       *)
(* between calls.  `last` is the call just made with its result, `hist`    *)
(* the latest getCacheBustedUrl call not yet followed by a call of another *)
(* function.                                                               *)

Init ==
    /\ fs \in FsStates(AssetFiles)
    /\ staticCache = EmptyCache
    /\ last = None
    /\ hist = None
    /\ frame = Idle
    /\ tasks = NoTasks

AssetFsChange ==
    /\ FsStep(AssetFiles)
    /\ last' = [name |-> "fsChange"]
    /\ UNCHANGED <<staticCache, hist, frame, tasks>>

CallComputeStaticAssetUrl ==
    \E inputUrl \in UrlInputs, computedHash \in HashInputs :
        \E r \in {computeStaticAssetUrl(fs, inputUrl, computedHash)} :
            /\ last' = [name |-> "computeStaticAssetUrl", inputUrl |-> inputUrl,
                        computedHash |-> computedHash,
                        val |-> r.val, io |-> r.io]
            /\ hist' = None
            /\ UNCHANGED <<fs, staticCache, frame, tasks>>

CallGetCacheBustedUrl ==
    \E inputUrl \in UrlInputs :
        \E r \in {getCacheBustedUrl(fs, staticCache, inputUrl)} :
            /\ staticCache' = r.cache
            /\ last' = [name |-> "getCacheBustedUrl", inputUrl |-> inputUrl,
                        val |-> r.val, io |-> r.io, computed |-> r.computed,
                        prev |-> hist]
            /\ hist' = [name |-> "getCacheBustedUrl", inputUrl |-> inputUrl,
                        val |-> r.val]
            /\ UNCHANGED <<fs, frame, tasks>>

Next ==
    \/ AssetFsChange
    \/ CallComputeStaticAssetUrl
    \/ CallGetCacheBustedUrl

Spec == Init /\ [][Next]_vars

----------------------------------------------------------------------------
(* SpecImages: the image functions, as the single-threaded process runs    *)
(* them.  Every call runs to completion; the image files change between    *)
(* calls.  The cache holds what an earlier getCacheBustedUrl call left.    *)

InitImages ==
    /\ fs \in FsStates(ImageFiles)
    /\ staticCache \in {EmptyCache,
                        getCacheBustedUrl(fs, EmptyCache, Str(AppCss)).cache}
    /\ last = None
    /\ hist = None
    /\ frame = Idle
    /\ tasks = NoTasks

ImageFsChange ==
    /\ FsStep(ImageFiles)
    /\ last' = [name |-> "fsChange"]
    /\ UNCHANGED <<staticCache, hist, frame, tasks>>

CallGetImageUrl ==
    \E e \in Entities, imageType \in ImageTypes :
        \E r \in {getImageUrl(fs, e.entityType, imageType, e.id, e.variationId)} :
            /\ last' = [name |-> "getImageUrl", e |-> e, imageType |-> imageType,
                        val |-> r.val, io |-> r.io]
            /\ UNCHANGED <<fs, staticCache, hist, frame, tasks>>

CallGetEntityImageData ==
    \E e \in Entities, usePlaceholderImage \in BOOLEAN :
        \E r \in {getEntityImageData(fs, e.entityType, e.id, e.variationId,
                                    usePlaceholderImage)} :
            /\ last' = [name |-> "getEntityImageData", e |-> e,
                        usePlaceholderImage |-> usePlaceholderImage,
                        val |-> r.val, io |-> r.io,
                        cacheBefore |-> staticCache]
            /\ UNCHANGED <<fs, staticCache, hist, frame, tasks>>

NextImages ==
    \/ ImageFsChange
    \/ CallGetImageUrl
    \/ CallGetEntityImageData

SpecImages == InitImages /\ [][NextImages]_vars

----------------------------------------------------------------------------
(* SpecSplice: addHashToUrl on its own.  A URL is drawn as the join of 1 to *)
(* MaxSegments segments, the function is applied to it, and once more to    *)
(* its own result.                                                          *)

\* The segments a URL is drawn from: empty, a name, a path.
Segments == {<< >>, <<"a">>, <<SLASH, "b">>}

SegmentLists == UNION { [1..n -> Segments] : n \in 1..MaxSegments }

SpliceHashes == {<<Md5HexPrefix("")>>, <<Md5HexPrefix("a")>>}

InitSplice ==
    /\ fs = [f \in {} |-> ""]
    /\ staticCache = EmptyCache
    /\ \E segs \in SegmentLists, hash \in SpliceHashes :
          last = [name |-> "input", segs |-> segs,
                  inputUrl |-> Join(segs, DOT), hash |-> hash]
    /\ hist = None
    /\ frame = Idle
    /\ tasks = NoTasks

CallAddHashToUrl ==
    /\ last.name = "input"
    /\ last' = [name |-> "addHashToUrl", segs |-> last.segs,
                inputUrl |-> last.inputUrl, hash |-> last.hash,
                val |-> addHashToUrl(last.inputUrl, last.hash),
                first |-> None]
    /\ UNCHANGED <<fs, staticCache, hist, frame, tasks>>

CallAddHashToUrlAgain ==
    /\ last.name = "addHashToUrl"
    /\ last.first = None
    /\ \E hash \in SpliceHashes :
          last' = [name |-> "addHashToUrl", segs |-> last.segs,
                   inputUrl |-> last.val, hash |-> hash,
                   val |-> addHashToUrl(last.val, hash),
                   first |-> [name |-> "addHashToUrl", hash |-> last.hash]]
    /\ UNCHANGED <<fs, staticCache, hist, frame, tasks>>

NextSplice ==
    \/ CallAddHashToUrl
    \/ CallAddHashToUrlAgain

SpecSplice == InitSplice /\ [][NextSplice]_vars

----------------------------------------------------------------------------
(* SpecRace: one getEntityImageData call taken helper call by helper call, *)
(* the image files changing in between (they belong to the file system,    *)
(* not to the process).  `frame` is the call in progress: its arguments,   *)
(* its position and its local values.                                      *)

InitRace ==
    /\ fs \in FsStates(ImageFiles)
    /\ staticCache = EmptyCache
    /\ last = None
    /\ hist = None
    /\ frame = Idle
    /\ tasks = NoTasks

RaceFsChange ==
    /\ FsStep(ImageFiles)
    /\ UNCHANGED <<staticCache, last, hist, frame, tasks>>

\* The call begins.
R_Call ==
    /\ frame.pc \in {"idle", "done"}
    /\ \E e \in Entities, usePlaceholderImage \in BOOLEAN :
          frame' = [pc |-> "url", e |-> e,
                    usePlaceholderImage |-> usePlaceholderImage]
    /\ UNCHANGED <<fs, staticCache, last, hist, tasks>>

\* const url = getImageUrl(entityType, FULL, id, variationId);
\* if (!url) { ... return ... }
R_Url ==
    /\ frame.pc = "url"
    /\ \E url \in {getImageUrl(fs, frame.e.entityType, FULL, frame.e.id,
                               frame.e.variationId).val} :
          frame' =
            IF ~Truthy(url)
            THEN [pc |-> "done", e |-> frame.e,
                  usePlaceholderImage |-> frame.usePlaceholderImage,
                  val |-> IF frame.usePlaceholderImage
                          THEN ImageData(Str(getImageNotFoundFilename(THUMB)),
                                         Str(getImageNotFoundFilename(MEDIUM)),
                                         Str(getImageNotFoundFilename(FULL)))
                          ELSE Undefined]
            ELSE [pc |-> "hash", e |-> frame.e,
                  usePlaceholderImage |-> frame.usePlaceholderImage,
                  url |-> url]
    /\ UNCHANGED <<fs, staticCache, last, hist, tasks>>

\* const hash = createFileHash(path.join(process.cwd(), 'public', url));
R_Hash ==
    /\ frame.pc = "hash"
    /\ \E hash \in {createFileHash(fs, PublicPath(frame.url.s)).val} :
          frame' =
            IF IsThrow(hash)
            THEN [pc |-> "done", e |-> frame.e,
                  usePlaceholderImage |-> frame.usePlaceholderImage,
                  val |-> hash]
            ELSE [pc |-> "thumb", e |-> frame.e,
                  usePlaceholderImage |-> frame.usePlaceholderImage,
                  hash |-> hash]
    /\ UNCHANGED <<fs, staticCache, last, hist, tasks>>

\* thumb: computeStaticAssetUrl(getImageUrl(entityType, THUMB, ...), hash),
R_Thumb ==
    /\ frame.pc = "thumb"
    /\ \E v \in {Variant(fs, frame.e.entityType, THUMB, frame.e.id,
                         frame.e.variationId, frame.hash).val} :
          frame' =
            IF IsThrow(v)
            THEN [pc |-> "done", e |-> frame.e,
                  usePlaceholderImage |-> frame.usePlaceholderImage,
                  val |-> v]
            ELSE [pc |-> "medium", e |-> frame.e,
                  usePlaceholderImage |-> frame.usePlaceholderImage,
                  hash |-> frame.hash, thumb |-> v]
    /\ UNCHANGED <<fs, staticCache, last, hist, tasks>>

\* medium: computeStaticAssetUrl(getImageUrl(entityType, MEDIUM, ...), hash),
R_Medium ==
    /\ frame.pc = "medium"
    /\ \E v \in {Variant(fs, frame.e.entityType, MEDIUM, frame.e.id,
                         frame.e.variationId, frame.hash).val} :
          frame' =
            IF IsThrow(v)
            THEN [pc |-> "done", e |-> frame.e,
                  usePlaceholderImage |-> frame.usePlaceholderImage,
                  val |-> v]
            ELSE [pc |-> "full", e |-> frame.e,
                  usePlaceholderImage |-> frame.usePlaceholderImage,
                  hash |-> frame.hash, thumb |-> frame.thumb, medium |-> v]
    /\ UNCHANGED <<fs, staticCache, last, hist, tasks>>

\* full: computeStaticAssetUrl(getImageUrl(entityType, FULL, ...), hash)
\* and the return of the record.
R_Full ==
    /\ frame.pc = "full"
    /\ \E v \in {Variant(fs, frame.e.entityType, FULL, frame.e.id,
                         frame.e.variationId, frame.hash).val} :
          frame' =
            [pc |-> "done", e |-> frame.e,
             usePlaceholderImage |-> frame.usePlaceholderImage,
             val |-> IF IsThrow(v) THEN v
                     ELSE ImageData(frame.thumb, frame.medium, v)]
    /\ UNCHANGED <<fs, staticCache, last, hist, tasks>>

NextRace ==
    \/ RaceFsChange
    \/ R_Call
    \/ R_Url
    \/ R_Hash
    \/ R_Thumb
    \/ R_Medium
    \/ R_Full

SpecRace == InitRace /\ [][NextRace]_vars

----------------------------------------------------------------------------
(* SpecTasks: NumTasks logical tasks call getCacheBustedUrl with one and   *)
(* the same input over the shared cache, and their lookup, compute, store  *)
(* and return steps interleave, as section 5 of the specification          *)
(* supposes of a host with shared memory.  The asset files change in       *)
(* between.  `tasks` holds the input, each task's position and locals, and *)
(* three history values: the values stored into the cache, the number of   *)
(* stores, and whether what is at public/<inputUrl> changed since the      *)
(* tasks began.                                                            *)

TaskIds == 1..NumTasks

Start == [pc |-> "start"]

InitTasks ==
    /\ fs \in FsStates(AssetFiles)
    /\ staticCache = EmptyCache
    /\ last = None
    /\ hist = None
    /\ frame = Idle
    /\ \E inputUrl \in UrlInputs :
          tasks = [url |-> inputUrl, writes |-> {}, stores |-> 0,
                   changed |-> FALSE, t |-> [i \in TaskIds |-> Start]]

\* What a call finds at public/<inputUrl>: whether something exists there
\* and, for a file, its content.
Observed(files, inputUrl) ==
    IF IsString(inputUrl)
    THEN [exists |-> ExistsSync(files, PublicPath(inputUrl.s)),
          data |-> IF PublicPath(inputUrl.s) \in DOMAIN files
                   THEN files[PublicPath(inputUrl.s)] ELSE ""]
    ELSE [exists |-> FALSE, data |-> ""]

TaskFsChange ==
    /\ FsStep(AssetFiles)
    /\ tasks' = [tasks EXCEPT !.changed =
                    @ \/ Observed(fs', tasks.url) # Observed(fs, tasks.url)]
    /\ UNCHANGED <<staticCache, last, hist, frame>>

\* if (staticCache[inputUrl]) { return staticCache[inputUrl]; }
T_Lookup(i) ==
    /\ tasks.t[i].pc = "start"
    /\ tasks' = [tasks EXCEPT !.t[i] =
                    IF Truthy(CacheGet(staticCache, tasks.url))
                    THEN [pc |-> "done",
                          ret |-> CacheGet(staticCache, tasks.url)]
                    ELSE [pc |-> "compute"]]
    /\ UNCHANGED <<fs, staticCache, last, hist, frame>>

\* computeStaticAssetUrl(inputUrl), the right-hand side of the assignment
T_Compute(i) ==
    /\ tasks.t[i].pc = "compute"
    /\ \E r \in {computeStaticAssetUrl(fs, tasks.url, Undefined).val} :
          tasks' = [tasks EXCEPT !.t[i] =
                      IF IsThrow(r)
                      THEN [pc |-> "done", ret |-> r]
                      ELSE [pc |-> "store", tmp |-> r]]
    /\ UNCHANGED <<fs, staticCache, last, hist, frame>>

\* the store of the input in place of the computed value
T_Store_Input(i) ==
    /\ tasks.t[i].pc = "store"
    /\ staticCache' = CacheSet(staticCache, tasks.url, tasks.url)
    /\ tasks' = [tasks EXCEPT !.t[i] = [pc |-> "return"],
                              !.writes = @ \cup {tasks.url},
                              !.stores = @ + 1]
    /\ UNCHANGED <<fs, last, hist, frame>>

\* staticCache[inputUrl] = <the computed value>;
T_Store(i) ==
    /\ tasks.t[i].pc = "store"
    /\ staticCache' = CacheSet(staticCache, tasks.url, tasks.t[i].tmp)
    /\ tasks' = [tasks EXCEPT !.t[i] = [pc |-> "return"],
                              !.writes = @ \cup {tasks.t[i].tmp},
                              !.stores = @ + 1]
    /\ UNCHANGED <<fs, last, hist, frame>>

\* return staticCache[inputUrl];
T_Return(i) ==
    /\ tasks.t[i].pc = "return"
    /\ tasks' = [tasks EXCEPT !.t[i] =
                    [pc |-> "done", ret |-> CacheGet(staticCache, tasks.url)]]
    /\ UNCHANGED <<fs, staticCache, last, hist, frame>>

NextTasks ==
    \/ TaskFsChange
    \/ \E i \in TaskIds : T_Lookup(i)
    \/ \E i \in TaskIds : T_Compute(i)
    \/ \E i \in TaskIds : T_Store(i)
    \/ \E i \in TaskIds : T_Return(i)

SpecTasks == InitTasks /\ [][NextTasks]_vars

----------------------------------------------------------------------------
(* What the claims speak of, written out independently of the functions    *)

Exts == <<"png", "jpg", "jpeg">>

\* The extension of the first full-size candidate of e that exists, in the
\* order png, jpg, jpeg; "none" if there is none.
MatchedExt(files, e) ==
    IF ImageFile(e, "full", "png") \in DOMAIN files THEN "png"
    ELSE IF ImageFile(e, "full", "jpg") \in DOMAIN files THEN "jpg"
    ELSE IF ImageFile(e, "full", "jpeg") \in DOMAIN files THEN "jpeg"
    ELSE "none"

\* Number of probes up to and including the first that succeeds.
ProbeCount(files, e) ==
    IF ImageFile(e, "full", "png") \in DOMAIN files THEN 1
    ELSE IF ImageFile(e, "full", "jpg") \in DOMAIN files THEN 2
    ELSE Len(Exts)

\* "/images/<dir>/<size>/<imageId>.<ext>"
PlainImageUrl(e, size, ext) ==
    Str(<<SLASH, "images", SLASH, DirOf(e), SLASH, size, SLASH, IdOf(e),
          DOT, ext>>)

\* "/images/<dir>/<size>/<imageId>.<hash>.<ext>"
HashedImageUrl(e, size, hash, ext) ==
    Str(<<SLASH, "images", SLASH, DirOf(e), SLASH, size, SLASH, IdOf(e),
          DOT, hash, DOT, ext>>)

Recognized == {THUMB, MEDIUM, FULL}

\* Position of the size segment among the tokens of an image URL.
SizeAt == Len(<<SLASH, "images", SLASH, "items", SLASH, "thumb">>)

PlaceholderRecord ==
    ImageData(Str(<<SLASH, "images", SLASH, "image-not-available-thumb",
                    DOT, "svg">>),
              Str(<<SLASH, "images", SLASH, "image-not-available-medium",
                    DOT, "svg">>),
              Str(<<SLASH, "images", SLASH, "image-not-available-full",
                    DOT, "svg">>))

\* The file or directory public/<url> for the string inputs.
AssetPathOf(url) ==
    CASE url = AppCss -> AppCssFile
      [] url = <<"5">> -> FiveFile
      [] url = << >> -> <<SLASH, "app", SLASH, "public">>

\* The string inputs with the hash h spliced in.
SplicedInput(url, h) ==
    CASE url = AppCss -> <<SLASH, "css", SLASH, "app", DOT, h, DOT, "css">>
      [] url = <<"5">> -> <<h, DOT, "5">>
      [] url = << >> -> <<h, DOT>>

----------------------------------------------------------------------------
(* C1 *)

\* C1: of two successive getCacheBustedUrl calls with the same input, the
\* second returns what the first returned and is a cache hit: it does not
\* call computeStaticAssetUrl and makes no file-system call.  Claimed for
\* every input, and with file changes between the two calls.
C1_SecondCallIsCacheHit ==
    (/\ last.name = "getCacheBustedUrl"
     /\ last.prev.name = "getCacheBustedUrl"
     /\ last.prev.inputUrl = last.inputUrl)
        => /\ last.val = last.prev.val
           /\ ~last.computed
           /\ last.io = << >>

----------------------------------------------------------------------------
(* C2 *)

\* C2: the cache only grows: no step removes a key of the cache or replaces
\* the value stored under it by a different value.
C2_CacheOnlyGrows ==
    [][\A k \in DOMAIN staticCache :
          k \in DOMAIN staticCache' /\ staticCache'[k] = staticCache[k]]_vars

----------------------------------------------------------------------------
(* C3 *)

\* C3: when a full-size image of the entity exists, getEntityImageData
\* returns the three URLs thumb, medium and full, each carrying the hash of
\* the matched full-size file before the matched extension.
C3_SameHashOnAllVariants ==
    (/\ last.name = "getEntityImageData"
     /\ MatchedExt(fs, last.e) # "none")
        => \E ext \in {MatchedExt(fs, last.e)} :
           \E hash \in {Md5HexPrefix(fs[ImageFile(last.e, "full", ext)])} :
              last.val = ImageData(HashedImageUrl(last.e, "thumb", hash, ext),
                                   HashedImageUrl(last.e, "medium", hash, ext),
                                   HashedImageUrl(last.e, "full", hash, ext))

\* A call for the item whose full-size .png and thumbnail .png both exist
\* with different contents: all three URLs carry the hash of the full-size
\* file.
C3_Witness ==
    /\ last.name = "getEntityImageData"
    /\ last.e = ItemRef
    /\ ImageFile(ItemRef, "full", "png") \in DOMAIN fs
    /\ ImageFile(ItemRef, "thumb", "png") \in DOMAIN fs
    /\ fs[ImageFile(ItemRef, "full", "png")] = "a"
    /\ fs[ImageFile(ItemRef, "thumb", "png")] = ""
    /\ last.val.thumb = HashedImageUrl(ItemRef, "thumb", "0cc175b", "png")

----------------------------------------------------------------------------
(* C4 *)

----------------------------------------------------------------------------
(* C5 *)

\* C5: for each recognized size, getImageUrl returns a URL exactly when a
\* full-size file of the image id exists, whatever thumb or medium files
\* exist; the URL has the requested size as its size segment and ends in
\* the extension of a full-size file that exists; and the results for the
\* three sizes are all present or all absent and differ only in the size
\* segment.
C5_ExistenceAgainstFull ==
    (/\ last.name = "getImageUrl"
     /\ last.imageType \in Recognized)
        => /\ Truthy(last.val)
                <=> \E i \in DOMAIN Exts :
                       ImageFile(last.e, "full", Exts[i]) \in DOMAIN fs
           /\ Truthy(last.val)
                => /\ last.val.s[SizeAt] = last.imageType[1]
                   /\ ImageFile(last.e, "full", Last(last.val.s)) \in DOMAIN fs
           /\ \A size \in Recognized :
                 getImageUrl(fs, last.e.entityType, size, last.e.id,
                             last.e.variationId).val
                    = IF Truthy(last.val)
                      THEN Str([last.val.s EXCEPT ![SizeAt] = size[1]])
                      ELSE Undefined

\* The thumbnail URL of the item is returned although no thumbnail file
\* exists, the full-size .jpeg being there.
C5_Witness ==
    /\ last.name = "getImageUrl"
    /\ last.e = ItemRef
    /\ last.imageType = THUMB
    /\ ImageFile(ItemRef, "thumb", "png") \notin DOMAIN fs
    /\ last.val = PlainImageUrl(ItemRef, "thumb", "jpeg")

----------------------------------------------------------------------------
(* C6 *)

\* C6: when no full-size image exists, getEntityImageData returns the three
\* placeholder paths if the placeholder flag is set and nothing if it is
\* not; it reads no file and leaves the cache as it was.
C6_Placeholder ==
    (/\ last.name = "getEntityImageData"
     /\ MatchedExt(fs, last.e) = "none")
        => /\ last.val = IF last.usePlaceholderImage
                         THEN PlaceholderRecord
                         ELSE Undefined
           /\ \A i \in DOMAIN last.io : last.io[i].call # "readFileSync"
           /\ staticCache = last.cacheBefore

\* A call with the placeholder flag set, for the item with a thumbnail file
\* but no full-size file, the cache holding an entry.
C6_Witness ==
    /\ last.name = "getEntityImageData"
    /\ last.e = ItemRef
    /\ last.usePlaceholderImage
    /\ MatchedExt(fs, ItemRef) = "none"
    /\ ImageFile(ItemRef, "thumb", "png") \in DOMAIN fs
    /\ staticCache # EmptyCache
    /\ last.val = PlaceholderRecord

----------------------------------------------------------------------------
(* C7 *)

----------------------------------------------------------------------------
(* C8 *)

\* C8: for a URL of n >= 2 segments, addHashToUrl returns the URL of n+1
\* segments made of the first n-1 segments, the hash, and the last segment;
\* applied again with another hash to its own result, it returns the first
\* n-1 segments, the first hash, the second hash, and the last segment.
C8_Splice ==
    (/\ last.name = "addHashToUrl"
     /\ Len(last.segs) >= 2)
        => IF last.first = None
           THEN last.val =
                  Join(SubSeq(last.segs, 1, Len(last.segs) - 1)
                         \o <<last.hash>>
                         \o <<Last(last.segs)>>, DOT)
           ELSE last.val =
                  Join(SubSeq(last.segs, 1, Len(last.segs) - 1)
                         \o <<last.first.hash, last.hash>>
                         \o <<Last(last.segs)>>, DOT)

\* The second application, with a hash other than the first, to a URL of
\* three segments.
C8_Witness ==
    /\ last.name = "addHashToUrl"
    /\ last.first # None
    /\ last.first.hash # last.hash
    /\ last.segs = << <<SLASH, "b">>, <<"a">>, <<"a">> >>
    /\ last.val = <<SLASH, "b", DOT, "a", DOT, "d41d8cd", DOT, "0cc175b",
                    DOT, "a">>

----------------------------------------------------------------------------
(* C9 *)

\* The result of one getCacheBustedUrl call run alone on the empty cache
\* with the files as they are.
SingleCall == getCacheBustedUrl(fs, EmptyCache, tasks.url).val

----------------------------------------------------------------------------
(* C10 *)

\* C10: with the placeholder flag set, getEntityImageData returns a record
\* whose thumb, medium and full are all URLs, also when files appear or
\* disappear during the call.
C10_PlaceholderTotal ==
    (/\ frame.pc = "done"
     /\ frame.usePlaceholderImage)
        => /\ frame.val.t = "object"
           /\ IsString(frame.val.thumb)
           /\ IsString(frame.val.medium)
           /\ IsString(frame.val.full)

====
